---------------------------- MODULE Spec2Model ----------------------------
(***************************************************************************)
(* A model of the assistant bot of task-1.py: the validated fields (Field, *)
(* Name, Phone, Birthday), the Record with its phone list, the AddressBook *)
(* with get_upcoming_birthdays, and the command loop of main().            *)
(*                                                                         *)
(* A Python str is a sequence of Unicode code points.  A raised ValueError *)
(* is the message it carries; a call that returns normally yields OK.      *)
(***************************************************************************)
EXTENDS Integers, Sequences, FiniteSets, TLC

VARIABLES
    book,     \* AddressBook.data, in the dict's insertion order
    today,    \* datetime.today().date(), as [y, m, d]
    pc,       \* main(): "awaiting" the next line, "exited", or "crashed"
    line,     \* user_input of the last iteration of the loop
    out,      \* what the last iteration (or API call) printed or returned
    phones,   \* Record.phones of the record under test, a list of Phone values
    call,     \* the last call made on the API under test: [op, args]
    res       \* how that call ended: OK, the raised message, or Pending

vars == <<book, today, pc, line, out, phones, call, res>>

-----------------------------------------------------------------------------
(* Bounds of the model *)

\* how many characters longer than a phone number an input string may be
MaxOver == 1
\* how many phones the record under test may hold
MaxPhones == 3
\* how many days after each starting date the reference date ranges over
Horizon == 1

(* Program constants *)

\* len(value) != 10
PhoneLen == 10
\* 0 <= days_between < 7
Window == 7

-----------------------------------------------------------------------------
(* Strings *)

OK == "ok"
Pending == "pending"

\* one printed message, with the rows printed under it
Say(msg) == [msg |-> msg, data |-> <<>>]

\* no line has been read yet
NoLine == [cmd |-> "<none>", args |-> <<>>]

Rep(c, n) == [i \in 1..n |-> c]

\* code points: '0' '1' '9' '-' 'a', SUPERSCRIPT TWO, ARABIC-INDIC DIGIT ONE
Chars == {48, 49, 57, 45, 97, 178, 1633}

AsciiDigits == 48..57

\* str.isdigit() per character: true of every code point whose Unicode
\* Numeric_Type is Decimal or Digit, not of the ASCII digits alone.  The table
\* is cut down to the blocks the modelled inputs draw from.
IsDigitChar(c) == c \in AsciiDigits \cup 1632..1641 \cup {178, 179, 185}

\* str.isdigit(): all characters are digits and there is at least one
isdigit(s) == Len(s) > 0 /\ \A i \in 1..Len(s) : IsDigitChar(s[i])

-----------------------------------------------------------------------------
(* Fields *)

ErrEmpty == "Field cannot be empty."
ErrPhone == "Invalid phone number. Please provide a 10-digit phone number."
ErrNotFound == "Phone number not found."

Field_init(value) == IF Len(value) = 0 THEN ErrEmpty ELSE OK

Phone_init(value) ==
    IF ~isdigit(value) \/ Len(value) # PhoneLen
    THEN ErrPhone
    ELSE Field_init(value)

-----------------------------------------------------------------------------
(* Record: the phone list.  Each operator yields the list after the call  *)
(* and what the call raised.                                               *)

Record_add_phone_Unchecked(ps, phone_number) ==
    [phones |-> Append(ps, phone_number), raised |-> Phone_init(phone_number)]

Record_add_phone(ps, phone_number) ==
    LET r == Phone_init(phone_number)
    IN  IF r = OK
        THEN [phones |-> Append(ps, phone_number), raised |-> OK]
        ELSE [phones |-> ps, raised |-> r]

Record_remove_phone(ps, phone_number) ==
    [phones |-> SelectSeq(ps, LAMBDA p : p # phone_number), raised |-> OK]

\* the index the for loop breaks at, 0 when it runs to its else branch
FirstMatch(ps, phone_number) ==
    IF \E i \in 1..Len(ps) : ps[i] = phone_number
    THEN CHOOSE i \in 1..Len(ps) :
            /\ ps[i] = phone_number
            /\ \A j \in 1..(i - 1) : ps[j] # phone_number
    ELSE 0

Record_edit_phone_All(ps, old_phone_number, new_phone_number) ==
    IF ~isdigit(new_phone_number) \/ Len(new_phone_number) # PhoneLen
    THEN [phones |-> ps, raised |-> ErrPhone]
    ELSE IF FirstMatch(ps, old_phone_number) = 0
         THEN [phones |-> ps, raised |-> ErrNotFound]
         ELSE [phones |-> [i \in 1..Len(ps) |->
                              IF ps[i] = old_phone_number
                              THEN new_phone_number ELSE ps[i]],
               raised |-> OK]

Record_edit_phone(ps, old_phone_number, new_phone_number) ==
    IF ~isdigit(new_phone_number) \/ Len(new_phone_number) # PhoneLen
    THEN [phones |-> ps, raised |-> ErrPhone]
    ELSE LET k == FirstMatch(ps, old_phone_number)
         IN  IF k = 0
             THEN [phones |-> ps, raised |-> ErrNotFound]
             ELSE [phones |-> [ps EXCEPT ![k] = new_phone_number],
                   raised |-> OK]

-----------------------------------------------------------------------------
(* Phone construction on its own: the input is drawn in the initial state *)

\* runs of one character, optionally followed by one other character
PhoneStrings ==
    { Rep(c, n) \o t : c \in Chars, n \in 0..(PhoneLen + MaxOver),
                       t \in {<<>>} \cup { <<d>> : d \in Chars } }

Idle ==
    /\ book = <<>>
    /\ today = [y |-> 2024, m |-> 1, d |-> 1]
    /\ pc = "awaiting"
    /\ line = NoLine
    /\ out = Say("")

InitPhone ==
    /\ Idle
    /\ phones = <<>>
    /\ \E s \in PhoneStrings : call = [op |-> "Phone", args |-> <<s>>]
    /\ res = Pending

NewPhone ==
    /\ call.op = "Phone"
    /\ res = Pending
    /\ res' = Phone_init(call.args[1])
    /\ UNCHANGED <<book, today, pc, line, out, phones, call>>

NextPhone == NewPhone

SpecPhone == InitPhone /\ [][NextPhone]_vars

-----------------------------------------------------------------------------
(* One Record driven through add_phone, remove_phone and edit_phone *)

Digits10(c) == Rep(c, PhoneLen)

\* ten '0', ten '1', ten ARABIC-INDIC ONE, nine '1', nine '1' and 'a', ''
RecordInputs ==
    { Digits10(48), Digits10(49), Digits10(1633),
      Rep(49, PhoneLen - 1), Rep(49, PhoneLen - 1) \o <<97>>, <<>> }

InitRecord ==
    /\ Idle
    /\ phones = <<>>
    /\ call = [op |-> "Record", args |-> <<>>]
    /\ res = OK

Apply(op, args, r) ==
    /\ phones' = r.phones
    /\ call' = [op |-> op, args |-> args]
    /\ res' = r.raised
    /\ UNCHANGED <<book, today, pc, line, out>>

add_phone ==
    \E s \in RecordInputs :
        /\ Len(phones) < MaxPhones
        /\ Apply("add_phone", <<s>>, Record_add_phone(phones, s))

remove_phone ==
    \E s \in RecordInputs :
        Apply("remove_phone", <<s>>, Record_remove_phone(phones, s))

edit_phone ==
    \E old \in RecordInputs, new \in RecordInputs :
        Apply("edit_phone", <<old, new>>, Record_edit_phone(phones, old, new))

NextRecord == add_phone \/ remove_phone \/ edit_phone

SpecRecord == InitRecord /\ [][NextRecord]_vars

-----------------------------------------------------------------------------
(* Dates: datetime.date as [y, m, d], with the proleptic Gregorian ordinal *)

IsLeap(y) == (y % 4 = 0 /\ y % 100 # 0) \/ y % 400 = 0

DaysInMonth(y, m) ==
    IF m = 2 THEN (IF IsLeap(y) THEN 29 ELSE 28)
    ELSE IF m \in {4, 6, 9, 11} THEN 30 ELSE 31

RECURSIVE DaysBeforeMonth(_, _)
DaysBeforeMonth(y, m) ==
    IF m = 1 THEN 0 ELSE DaysBeforeMonth(y, m - 1) + DaysInMonth(y, m - 1)

DaysBeforeYear(y) ==
    365 * (y - 1) + ((y - 1) \div 4) - ((y - 1) \div 100) + ((y - 1) \div 400)

\* date.toordinal(): 0001-01-01 is day 1
toordinal(dt) == DaysBeforeYear(dt.y) + DaysBeforeMonth(dt.y, dt.m) + dt.d

\* date.weekday() of the date with ordinal n: Monday is 0
weekday(n) == (n + 6) % 7

\* date.isoweekday(): Monday is 1, Saturday 6, Sunday 7
isoweekday(n) == weekday(n) + 1

NextDay(dt) ==
    IF dt.d < DaysInMonth(dt.y, dt.m) THEN [dt EXCEPT !.d = dt.d + 1]
    ELSE IF dt.m < 12 THEN [y |-> dt.y, m |-> dt.m + 1, d |-> 1]
    ELSE [y |-> dt.y + 1, m |-> 1, d |-> 1]

RECURSIVE AddDays(_, _)
AddDays(dt, n) == IF n = 0 THEN dt ELSE AddDays(NextDay(dt), n - 1)

-----------------------------------------------------------------------------
(* Parsing and formatting of dates *)

Dot == 46
Hyphen == 45

\* str.split(sep)
RECURSIVE split(_, _)
split(s, sep) ==
    IF \E i \in 1..Len(s) : s[i] = sep
    THEN LET k == CHOOSE i \in 1..Len(s) :
                     s[i] = sep /\ \A j \in 1..(i - 1) : s[j] # sep
         IN  <<SubSeq(s, 1, k - 1)>> \o split(SubSeq(s, k + 1, Len(s)), sep)
    ELSE <<s>>

IsNumeral(s) == Len(s) > 0 /\ \A i \in 1..Len(s) : s[i] \in AsciiDigits

RECURSIVE NumVal(_)
NumVal(s) ==
    IF Len(s) = 0 THEN 0
    ELSE 10 * NumVal(SubSeq(s, 1, Len(s) - 1)) + (s[Len(s)] - 48)

\* str(n) of a number below 10000, zero-padded to the given width
RECURSIVE Numeral(_, _)
Numeral(n, width) ==
    IF width = 0 THEN <<>>
    ELSE Numeral(n \div 10, width - 1) \o <<48 + (n % 10)>>

NoDate == [ok |-> FALSE, y |-> 0, m |-> 0, d |-> 0]

\* the fields of datetime.strptime: %d and %m take one or two digits (1..31,
\* 1..12), %Y exactly four; the date must exist (year 1 or later, the day
\* within the month).  The inputs modelled are ASCII.
ParseFields(ds, ms, ys) ==
    IF /\ IsNumeral(ds) /\ Len(ds) <= 2 /\ NumVal(ds) \in 1..31
       /\ IsNumeral(ms) /\ Len(ms) <= 2 /\ NumVal(ms) \in 1..12
       /\ IsNumeral(ys) /\ Len(ys) = 4 /\ NumVal(ys) >= 1
       /\ NumVal(ds) <= DaysInMonth(NumVal(ys), NumVal(ms))
    THEN [ok |-> TRUE, y |-> NumVal(ys), m |-> NumVal(ms), d |-> NumVal(ds)]
    ELSE NoDate

\* datetime.strptime(value, "%d.%m.%Y")
strptime_dmY(value) ==
    LET c == split(value, Dot)
    IN  IF Len(c) = 3 THEN ParseFields(c[1], c[2], c[3]) ELSE NoDate

\* datetime.strptime(value, "%Y-%m-%d")
strptime_Ymd(value) ==
    LET c == split(value, Hyphen)
    IN  IF Len(c) = 3 THEN ParseFields(c[3], c[2], c[1]) ELSE NoDate

ErrName == "Name cannot be empty."
ErrDate == "Invalid date format. Please use DD.MM.YYYY."

IsSpace(c) == c \in {32} \cup 9..13

Name_init(value) ==
    IF \A i \in 1..Len(value) : IsSpace(value[i])
    THEN ErrName
    ELSE Field_init(value)

Birthday_init(value) ==
    IF ~strptime_dmY(value).ok THEN ErrDate ELSE Field_init(value)

-----------------------------------------------------------------------------
(* AddressBook: a list of [name, phones, birthday] in insertion order, the *)
(* names distinct.  birthday is None until add_birthday sets it.           *)

None == <<>>

\* Record(name): Name(name) may raise
Record_init(name) ==
    [rec |-> [name |-> name, phones |-> <<>>, birthday |-> None],
     raised |-> Name_init(name)]

\* the position of the record stored under name, 0 when there is none
IndexOf(b, name) ==
    IF \E i \in 1..Len(b) : b[i].name = name
    THEN CHOOSE i \in 1..Len(b) : b[i].name = name
    ELSE 0

\* AddressBook.find: whether data.get(name) is a record
find(b, name) == IndexOf(b, name) # 0

\* self.data[record.name.value] = record
add_record(b, rec) ==
    IF find(b, rec.name)
    THEN [b EXCEPT ![IndexOf(b, rec.name)] = rec]
    ELSE Append(b, rec)

\* del self.data[name]
delete(b, name) == SelectSeq(b, LAMBDA r : r.name # name)

\* bdate of one record: the birthday's day and month in tdate's year
Candidate(rec, tdate) ==
    LET c == split(rec.birthday, Dot)
    IN  strptime_Ymd(Numeral(tdate.y, 4) \o <<Hyphen>> \o c[2]
                                          \o <<Hyphen>> \o c[1])

\* the condition of the if statement on bdate
Qualifies_NoUpperEnd(bdate, tdate) ==
    LET days_between == toordinal(bdate) - toordinal(tdate)
        week_day == isoweekday(toordinal(bdate))
    IN  /\ 0 <= days_between
        /\ \/ week_day < 6
           \/ weekday(toordinal(bdate) + (IF week_day = 6 THEN 1 ELSE 2)) = 0

Qualifies(bdate, tdate) ==
    LET days_between == toordinal(bdate) - toordinal(tdate)
        week_day == isoweekday(toordinal(bdate))
    IN  /\ 0 <= days_between /\ days_between < Window
        /\ \/ week_day < 6
           \/ weekday(toordinal(bdate) + (IF week_day = 6 THEN 1 ELSE 2)) = 0

\* the line appended for a record: its name and bdate's day and month, which
\* strftime("%d %B") renders
Entry(rec, bdate) == [name |-> rec.name, day |-> bdate.d, month |-> bdate.m]

\* the for loop from record i on
RECURSIVE UpcomingFrom(_, _, _)
UpcomingFrom(b, tdate, i) ==
    IF i > Len(b) THEN <<>>
    ELSE LET rec == b[i]
             rest == UpcomingFrom(b, tdate, i + 1)
         IN  IF rec.birthday # None /\ Qualifies(Candidate(rec, tdate), tdate)
             THEN <<Entry(rec, Candidate(rec, tdate))>> \o rest
             ELSE rest

\* AddressBook.get_upcoming_birthdays: strptime raises on the first record
\* whose birthday does not exist in tdate's year
get_upcoming_birthdays(b, tdate) ==
    IF \E i \in 1..Len(b) :
          b[i].birthday # None /\ ~Candidate(b[i], tdate).ok
    THEN [raised |-> "day is out of range for month", list |-> <<>>]
    ELSE [raised |-> OK, list |-> UpcomingFrom(b, tdate, 1)]

-----------------------------------------------------------------------------
(* main(): the handlers.  Each yields the book after the command and what  *)
(* the command printed.                                                   *)

UsageAdd == "Invalid format. Please use: add [name] [phone]"
UsageChange == "Invalid format. Please use: change [name] [old phone] [new phone]"
UsagePhone == "Invalid format. Please use: phone [name]"
UsageAddBirthday == "Invalid format. Please use: add-birthday [name] [birthday (DD.MM.YYYY)]"
UsageDelete == "Invalid format. Please use: delete [name]"
UsageShowBirthday == "Invalid format. Please use: show-birthday [name]"
MsgExists == "Contact with this name already exists."
MsgNoContact == "Contact not found."

Printed(b, msg) == [book |-> b, out |-> Say(msg)]

\* the record stored under name, replaced (the handlers mutate it in place)
SetRecord(b, name, rec) == [b EXCEPT ![IndexOf(b, name)] = rec]

main_add_Overwrite(b, args) ==
    IF Len(args) # 2 THEN Printed(b, UsageAdd)
    ELSE LET r == Record_init(args[1])
             a == Record_add_phone(r.rec.phones, args[2])
         IN  IF r.raised # OK THEN Printed(b, r.raised)
             ELSE IF a.raised # OK
                  THEN Printed(add_record(b, r.rec), a.raised)
                  ELSE Printed(add_record(b, [r.rec EXCEPT !.phones = a.phones]),
                               "Contact added.")

main_add(b, args) ==
    IF Len(args) # 2 THEN Printed(b, UsageAdd)
    ELSE IF ~find(b, args[1])
         THEN LET r == Record_init(args[1])
                  b1 == add_record(b, r.rec)
                  a == Record_add_phone(r.rec.phones, args[2])
              IN  IF r.raised # OK THEN Printed(b, r.raised)
                  ELSE IF a.raised # OK THEN Printed(b1, a.raised)
                  ELSE Printed(SetRecord(b1, args[1],
                                         [r.rec EXCEPT !.phones = a.phones]),
                               "Contact added.")
         ELSE Printed(b, MsgExists)

main_change(b, args) ==
    IF Len(args) # 3 THEN Printed(b, UsageChange)
    ELSE IF find(b, args[1])
         THEN LET rec == b[IndexOf(b, args[1])]
                  e == Record_edit_phone(rec.phones, args[2], args[3])
              IN  IF e.raised # OK THEN Printed(b, e.raised)
                  ELSE Printed(SetRecord(b, args[1],
                                         [rec EXCEPT !.phones = e.phones]),
                               "Phone number updated.")
         ELSE Printed(b, MsgNoContact)

main_phone(b, args) ==
    IF Len(args) # 1 THEN Printed(b, UsagePhone)
    ELSE IF find(b, args[1])
         THEN [book |-> b,
               out |-> [msg |-> "Contact name: {name}, phones: {phones}, birthday: {birthday}",
                        data |-> <<b[IndexOf(b, args[1])]>>]]
         ELSE Printed(b, MsgNoContact)

main_add_birthday(b, args) ==
    IF Len(args) # 2 THEN Printed(b, UsageAddBirthday)
    ELSE IF find(b, args[1])
         THEN LET rec == b[IndexOf(b, args[1])]
                  r == Birthday_init(args[2])
              IN  IF r # OK THEN Printed(b, r)
                  ELSE Printed(SetRecord(b, args[1],
                                         [rec EXCEPT !.birthday = args[2]]),
                               "Birthday added.")
         ELSE Printed(b, MsgNoContact)

\* AddressBook.delete_contact
delete_contact(b, name) ==
    IF find(b, name)
    THEN [book |-> delete(b, name),
          out |-> [msg |-> "Contact '{name}' deleted.", data |-> <<name>>]]
    ELSE [book |-> b,
          out |-> [msg |-> "Contact '{name}' not found.", data |-> <<name>>]]

main_delete(b, args) ==
    IF Len(args) # 1 THEN Printed(b, UsageDelete)
    ELSE delete_contact(b, args[1])

\* AddressBook.show_birthday
show_birthday(b, name) ==
    IF find(b, name) /\ b[IndexOf(b, name)].birthday # None
    THEN [book |-> b,
          out |-> [msg |-> "{name}'s birthday is on {birthday}",
                   data |-> <<name, b[IndexOf(b, name)].birthday>>]]
    ELSE [book |-> b,
          out |-> [msg |-> "No birthday found for {name}", data |-> <<name>>]]

main_show_birthday(b, args) ==
    IF Len(args) # 1 THEN Printed(b, UsageShowBirthday)
    ELSE show_birthday(b, args[1])

\* the birthdays branch, when get_upcoming_birthdays returns
main_birthdays(upcoming_birthdays) ==
    IF upcoming_birthdays = <<>>
    THEN Say("No upcoming birthdays in the next week.")
    ELSE [msg |-> "Upcoming birthdays:", data |-> upcoming_birthdays]

\* AddressBook.show_all_contacts
show_all_contacts(b) ==
    IF b = <<>> THEN Say("No contacts found.")
    ELSE [msg |-> "table", data |-> b]

-----------------------------------------------------------------------------
(* main(): the loop *)

DMY(d, m, y) == Numeral(d, 2) \o <<Dot>> \o Numeral(m, 2) \o <<Dot>> \o Numeral(y, 4)

\* the names "J" and "A"
NameJ == <<74>>
NameA == <<65>>
Names == { NameJ, NameA }

\* ten '0', ten '1', nine '1'
LoopPhones == { Digits10(48), Digits10(49), Rep(49, PhoneLen - 1) }

\* the last one is no calendar date
LoopBirthdays ==
    { DMY(29, 12, 1990), DMY(30, 12, 1990), DMY(2, 1, 1991), DMY(29, 2, 2000),
      DMY(31, 2, 2024) }

\* The argument lists typed at the prompt.  "J" is given every phone and
\* birthday, "A" a few of them; each command is also typed with no argument.
AddArgs ==
    {<<>>} \cup { <<NameJ, p>> : p \in LoopPhones }
           \cup { <<NameA, Digits10(48)>> }

ChangeArgs ==
    {<<>>} \cup { <<NameJ, Digits10(48), p>> : p \in LoopPhones }
           \cup { <<NameJ, Rep(49, PhoneLen - 1), Digits10(49)>>,
                  <<NameA, Digits10(49), Digits10(48)>> }

AddBirthdayArgs ==
    {<<>>} \cup { <<NameJ, d>> : d \in LoopBirthdays }
           \cup { <<NameA, DMY(30, 12, 1990)>>, <<NameA, DMY(29, 2, 2000)>> }

NameArgs == {<<>>} \cup { <<n>> : n \in Names }

\* Friday 29 December 2023, Monday 26 February 2024
Starts == { [y |-> 2023, m |-> 12, d |-> 29], [y |-> 2024, m |-> 2, d |-> 26] }

TodaySet == { AddDays(s, k) : s \in Starts, k \in 0..Horizon }

Init ==
    /\ book = <<>>
    /\ today \in TodaySet
    /\ pc = "awaiting"
    /\ line = NoLine
    /\ out = Say("")
    /\ phones = <<>>
    /\ call = [op |-> "main", args |-> <<>>]
    /\ res = OK

\* one iteration that ends at the bottom of the loop body
Handle(cmd, args, r) ==
    /\ pc = "awaiting"
    /\ line' = [cmd |-> cmd, args |-> args]
    /\ book' = r.book
    /\ out' = r.out
    /\ UNCHANGED <<today, pc, phones, call, res>>

\* user_input = [] and user_input[0] raises IndexError
BlankLine ==
    /\ pc = "awaiting"
    /\ line' = [cmd |-> "", args |-> <<>>]
    /\ pc' = "crashed"
    /\ out' = Say("IndexError")
    /\ UNCHANGED <<book, today, phones, call, res>>

Close ==
    \E c \in {"close", "exit"} :
        /\ pc = "awaiting"
        /\ line' = [cmd |-> c, args |-> <<>>]
        /\ pc' = "exited"
        /\ out' = Say("Good bye!")
        /\ UNCHANGED <<book, today, phones, call, res>>

Hello == Handle("hello", <<>>, Printed(book, "How can I help you?"))

Add ==
    \E args \in AddArgs :
        Handle("add", args, main_add(book, args))

Change ==
    \E args \in ChangeArgs :
        Handle("change", args, main_change(book, args))

PhoneCmd ==
    \E args \in NameArgs :
        Handle("phone", args, main_phone(book, args))

AddBirthday ==
    \E args \in AddBirthdayArgs :
        Handle("add-birthday", args, main_add_birthday(book, args))

Delete ==
    \E args \in NameArgs :
        Handle("delete", args, main_delete(book, args))

ShowBirthday ==
    \E args \in NameArgs :
        Handle("show-birthday", args, main_show_birthday(book, args))

\* get_upcoming_birthdays is called outside any try: what it raises ends main
Birthdays ==
    LET r == get_upcoming_birthdays(book, today)
    IN  /\ pc = "awaiting"
        /\ line' = [cmd |-> "birthdays", args |-> <<>>]
        /\ pc' = IF r.raised = OK THEN "awaiting" ELSE "crashed"
        /\ out' = IF r.raised = OK THEN main_birthdays(r.list)
                  ELSE Say("ValueError")
        /\ UNCHANGED <<book, today, phones, call, res>>

All == Handle("all", <<>>, [book |-> book, out |-> show_all_contacts(book)])

Invalid == Handle("frobnicate", <<>>, Printed(book, "Invalid command."))

Next ==
    \/ BlankLine \/ Close \/ Hello \/ Add \/ Change \/ PhoneCmd
    \/ AddBirthday \/ Delete \/ ShowBirthday \/ Birthdays \/ All \/ Invalid

Spec == Init /\ [][Next]_vars

-----------------------------------------------------------------------------
(* Claims about Phone and Record *)

\* ten characters, each one of '0'..'9'
AsciiPhone(s) == Len(s) = PhoneLen /\ \A i \in 1..Len(s) : s[i] \in AsciiDigits

\* what Phone.__init__ accepts
ValidPhone(s) == Phone_init(s) = OK

AllValid(ps) == \A i \in 1..Len(ps) : ValidPhone(ps[i])

\* C9: Phone construction succeeds exactly for the strings of 10 ASCII digit
\* characters and raises for every other string.
C9_PhoneExactlyAsciiDigits ==
    res # Pending => (res = OK <=> AsciiPhone(call.args[1]))

\* C8: edit_phone(old, new) with a valid new number rewrites exactly the
\* first entry equal to old and keeps every other entry, the length and the
\* order; with no entry equal to old it raises "Phone number not found." and
\* keeps the list.
C8_EditFirstMatchOnly ==
    [][ (call'.op = "edit_phone" /\ ValidPhone(call'.args[2])) =>
        LET old == call'.args[1]
            new == call'.args[2]
        IN  IF \E i \in 1..Len(phones) : phones[i] = old
            THEN /\ res' = OK
                 /\ Len(phones') = Len(phones)
                 /\ \E k \in 1..Len(phones) :
                        /\ phones[k] = old
                        /\ \A j \in 1..(k - 1) : phones[j] # old
                        /\ phones'[k] = new
                        /\ \A j \in 1..Len(phones) :
                              j # k => phones'[j] = phones[j]
            ELSE /\ res' = ErrNotFound
                 /\ phones' = phones ]_vars

\* an edit went through and a later duplicate of the old number is still there
C8_Witness ==
    /\ call.op = "edit_phone"
    /\ res = OK
    /\ call.args[1] # call.args[2]
    /\ \E i, j \in 1..Len(phones) :
          i < j /\ phones[i] = call.args[2] /\ phones[j] = call.args[1]

\* C10: after every add_phone, edit_phone and remove_phone call every phone
\* of the record is one Phone construction accepts, and a call that raises
\* leaves the list as it was.
C10_PhonesStayValid ==
    [][ /\ AllValid(phones')
        /\ (res' # OK => phones' = phones) ]_vars

\* an edit_phone with an unmatched old number raised on a record with phones
C10_Witness ==
    /\ call.op = "edit_phone"
    /\ res = ErrNotFound
    /\ Len(phones) >= 2
    /\ AllValid(phones)

-----------------------------------------------------------------------------
(* Claims about get_upcoming_birthdays and the command loop *)

\* the birthdays command has just printed its list
AfterBirthdays == line.cmd = "birthdays" /\ pc = "awaiting"

Listed(name) == \E i \in 1..Len(out.data) : out.data[i].name = name

\* the record's birthday, parsed
Born(rec) == strptime_dmY(rec.birthday)

InYear(rec, y) == [y |-> y, m |-> Born(rec).m, d |-> Born(rec).d]

ExistsInYear(rec, y) == Born(rec).d <= DaysInMonth(y, Born(rec).m)

\* the date lies in [today, today + 7 days)
InWindow(dt) ==
    /\ toordinal(today) <= toordinal(dt)
    /\ toordinal(dt) < toordinal(today) + Window

IsWeekend(dt) == isoweekday(toordinal(dt)) \in {6, 7}

\* the Monday after a Saturday or a Sunday
FollowingMonday(dt) ==
    AddDays(dt, IF isoweekday(toordinal(dt)) = 6 THEN 2 ELSE 1)

\* C1: get_upcoming_birthdays reports every record whose birthday, placed in
\* the reference date's year, lies in [reference date, reference date + 7
\* days), whatever weekday that date is.
C1_EveryBirthdayInWindowReported ==
    AfterBirthdays =>
        \A i \in 1..Len(book) :
            (/\ book[i].birthday # None
             /\ ExistsInYear(book[i], today.y)
             /\ InWindow(InYear(book[i], today.y)))
            => Listed(book[i].name)

\* C2: a contact whose birthday in the reference date's year is a Saturday or
\* a Sunday inside the window is reported with the day and month of the
\* following Monday.
C2_WeekendShownAsMonday ==
    AfterBirthdays =>
        \A i \in 1..Len(book) :
            (/\ book[i].birthday # None
             /\ ExistsInYear(book[i], today.y)
             /\ InWindow(InYear(book[i], today.y))
             /\ IsWeekend(InYear(book[i], today.y)))
            => \E k \in 1..Len(out.data) :
                  LET monday == FollowingMonday(InYear(book[i], today.y))
                  IN  /\ out.data[k].name = book[i].name
                      /\ out.data[k].day = monday.d
                      /\ out.data[k].month = monday.m

\* C3: no error raised while handling a command ends the loop; only a line
\* without any token (and close or exit) does.
C3_NoCommandEndsTheLoop ==
    pc = "crashed" => line.cmd = ""

\* C4: every contact of the collection holds at least one phone.
C4_EveryContactHasAPhone ==
    \A i \in 1..Len(book) : Len(book[i].phones) >= 1

\* C5: add N P, when the collection holds a record for N, prints "Contact
\* with this name already exists." and leaves the collection as it was.
C5_AddExistingNameChangesNothing ==
    [][ (/\ line'.cmd = "add"
         /\ Len(line'.args) = 2
         /\ find(book, line'.args[1]))
        => (out' = Say(MsgExists) /\ book' = book) ]_vars

\* add was refused for a contact that has a birthday and another phone
C5_Witness ==
    /\ line.cmd = "add"
    /\ out = Say(MsgExists)
    /\ pc = "awaiting"
    /\ \E i \in 1..Len(book) :
          /\ book[i].name = line.args[1]
          /\ book[i].birthday # None
          /\ book[i].phones # <<>>
          /\ book[i].phones # <<line.args[2]>>

\* C6: get_upcoming_birthdays reports only records that have a birthday
\* whose date in the reference date's year lies in [reference date, reference
\* date + 7 days), and reports no record twice.
C6_OnlyBirthdaysInWindowReported ==
    AfterBirthdays =>
        /\ \A k \in 1..Len(out.data) :
              \E i \in 1..Len(book) :
                  /\ book[i].name = out.data[k].name
                  /\ book[i].birthday # None
                  /\ ExistsInYear(book[i], today.y)
                  /\ InWindow(InYear(book[i], today.y))
        /\ \A k, l \in 1..Len(out.data) :
              out.data[k].name = out.data[l].name => k = l

\* a contact was reported and another contact, with a birthday, was not
C6_Witness ==
    /\ AfterBirthdays
    /\ Len(out.data) >= 1
    /\ \E i \in 1..Len(book) :
          book[i].birthday # None /\ ~Listed(book[i].name)

\* the next date on or after today with the birthday's day and month, when
\* this year's or next year's has it
HasNextOccurrence(rec) ==
    \/ ExistsInYear(rec, today.y)
       /\ toordinal(InYear(rec, today.y)) >= toordinal(today)
    \/ ExistsInYear(rec, today.y + 1)

NextOccurrence(rec) ==
    IF /\ ExistsInYear(rec, today.y)
       /\ toordinal(InYear(rec, today.y)) >= toordinal(today)
    THEN InYear(rec, today.y)
    ELSE InYear(rec, today.y + 1)

\* C7: the birthdays command lists a contact whose birthday's next occurrence
\* is a weekday within the 7 days starting at today, the last days of
\* December included.
C7_NextOccurrenceListed ==
    AfterBirthdays =>
        \A i \in 1..Len(book) :
            (/\ book[i].birthday # None
             /\ HasNextOccurrence(book[i])
             /\ InWindow(NextOccurrence(book[i]))
             /\ ~IsWeekend(NextOccurrence(book[i])))
            => Listed(book[i].name)

=============================================================================
